---- MODULE Spec2Model ----
(***************************************************************************)
(* Model of the power-system benchmark harness:                            *)
(*   benchmark_powsybl.py  - the PowSyBl engine run (time_operation, main) *)
(*   run_comparison.py     - the orchestrator (run_command, load, compare, *)
(*                           report, main)                                 *)
(*                                                                         *)
(* Python values are records tagged by "ty": None, numbers, dicts.         *)
(* Times are milliseconds held as integers; a formatted "%.2f" string is   *)
(* held as its number of hundredths.                                       *)
(*                                                                         *)
(* Spec         one run of run_comparison.main with its PowSyBl subprocess *)
(* SpecCompare  compare_timing_results on every pair of loaded values      *)
(* SpecReports  save_comparison_report called repeatedly as time passes    *)
(* SpecSelect   the sorted-prefix subset selection of benchmark_powsybl    *)
(***************************************************************************)
EXTENDS Integers, Sequences, FiniteSets, TLC

VARIABLES
    pc,                  \* position of run_comparison.main
    test_system,         \* does "./Test System/SmallSystem_case.raw" exist
    files,               \* powsybl_results.json / powermodels_results.json on disk
    reports,             \* the benchmark_comparison_<timestamp>.json files on disk
    launched,            \* the commands handed to subprocess.run, in order
    results,             \* main's results dict: powsybl_success, powermodels_success
    powsybl_results,     \* value loaded from powsybl_results.json
    powermodels_results, \* value loaded from powermodels_results.json
    comparison_df,       \* value returned by compare_timing_results
    exit_code,           \* value returned by run_comparison.main
    bp_pc,               \* position of benchmark_powsybl.main (the subprocess)
    bp_results,          \* benchmark_powsybl.main's results dict
    calls,               \* scenario operations invoked so far, in order
    last_op,             \* the last time_operation call: what func did, what came back
    now,                 \* wall clock (time.time()), in milliseconds
    op_log,              \* every time_operation call of the engine run, in order
    warnings,            \* files load_json_results has printed a warning for
    removed,             \* old result files main has removed
    index,               \* identifiers as the network table supplies them
    count,               \* size asked of a subset selection
    selection            \* the subset selected, None before the selection

vars == <<pc, test_system, files, reports, launched, results, powsybl_results,
          powermodels_results, comparison_df, exit_code, bp_pc, bp_results,
          calls, last_op, now, op_log, warnings, removed, index, count,
          selection>>

\* the state of a subset selection
selVars == <<index, count, selection>>

----------------------------------------------------------------------------
(* Bounds of the model *)

\* the large timing value (ms) of the result records given to the comparator
MaxTime == 3

\* longest duration (ms) of one scenario operation in an engine run
MaxElapsed == 1

\* number of branches of the loaded network
NumBranches == 2

\* number of half seconds the clock goes on over repeated report writes
MaxTicks == 4

\* largest number of candidate elements given to a subset selection
MaxIds == 3

\* largest subset size asked of a subset selection
MaxCount == 3

(* Program constants *)

num_contingencies == 500

----------------------------------------------------------------------------
(* Python values *)

None == [ty |-> "None"]

Num(x) == [ty |-> "num", v |-> x]

EmptyDict == [k \in {} |-> None]

\* d[k] = v
Put(d, k, v) == [x \in (DOMAIN d) \cup {k} |-> IF x = k THEN v ELSE d[x]]

\* d.get(k): None when the key is missing
Get(d, k) == IF k \in DOMAIN d THEN d[k] ELSE None

\* d.get(k, {})
GetDict(d, k) == IF k \in DOMAIN d THEN d[k] ELSE EmptyDict

\* truth value of a loaded result (None and the empty dict are falsy)
Truthy(r) == r.ty = "dict" /\ r.body # EmptyDict

Dict(body) == [ty |-> "dict", body |-> body]

Min(a, b) == IF a < b THEN a ELSE b

----------------------------------------------------------------------------
(* run_comparison.py: compare_timing_results *)

\* the scenario keys, in the order of the loop
TestNames == <<"ac_power_flow", "dc_power_flow",
               "dc_contingency_analysis", "ptdf_calculation">>

\* test_name.replace('_', ' ').title()
Title(test_name) ==
    CASE test_name = "ac_power_flow" -> "Ac Power Flow"
      [] test_name = "dc_power_flow" -> "Dc Power Flow"
      [] test_name = "dc_contingency_analysis" -> "Dc Contingency Analysis"
      [] test_name = "ptdf_calculation" -> "Ptdf Calculation"

\* the integer nearest to n/d (d > 0): what "%.2f" does to the hundredths of
\* the float n/d. A tie (n/d an odd number of halves) goes to even, as it does
\* for a float that is the quotient exactly; no quotient of two of the
\* timings tried here is a tie.
RoundDiv(n, d) ==
    LET q == n \div d
        r == n % d
    IN  IF 2 * r < d THEN q
        ELSE IF 2 * r > d THEN q + 1
        ELSE IF q % 2 = 0 THEN q ELSE q + 1

\* f"{x:.2f}" of a time x
Fmt2(x) == [text |-> "%.2f", h |-> 100 * x.v]

\* the quotient taken the other way round
Speedup_inverted(powsybl_time, powermodels_time) ==
    IF powsybl_time.v # 0
    THEN [ty |-> "float", num |-> powermodels_time.v, den |-> powsybl_time.v]
    ELSE [ty |-> "inf"]

\* powsybl_time / powermodels_time if powermodels_time != 0 else float('inf')
Speedup(powsybl_time, powermodels_time) ==
    IF powermodels_time.v # 0
    THEN [ty |-> "float", num |-> powsybl_time.v, den |-> powermodels_time.v]
    ELSE [ty |-> "inf"]

\* f"{speedup:.2f}x" if speedup is not None else "N/A"
FmtSpeedup(speedup) ==
    CASE speedup.ty = "None" -> [text |-> "N/A"]
      [] speedup.ty = "inf" -> [text |-> "infx"]
      [] speedup.ty = "float" ->
            [text |-> "%.2fx", h |-> RoundDiv(100 * speedup.num, speedup.den)]

\* <= written for <
Faster_le(powsybl_time, powermodels_time) ==
    IF powermodels_time.v <= powsybl_time.v THEN "PowerModels.jl" ELSE "PowSyBl"

\* > written for <
Faster_inverted(powsybl_time, powermodels_time) ==
    IF powermodels_time.v > powsybl_time.v THEN "PowerModels.jl" ELSE "PowSyBl"

\* "PowerModels.jl" if powermodels_time < powsybl_time else "PowSyBl"
Faster(powsybl_time, powermodels_time) ==
    IF powermodels_time.v < powsybl_time.v THEN "PowerModels.jl" ELSE "PowSyBl"

\* `if powsybl_time and powermodels_time`: a timing of 0 counts as missing
BothPresent_truthy(powsybl_time, powermodels_time) ==
    /\ powsybl_time # None /\ powsybl_time.v # 0
    /\ powermodels_time # None /\ powermodels_time.v # 0

\* powsybl_time is not None and powermodels_time is not None
BothPresent(powsybl_time, powermodels_time) ==
    powsybl_time # None /\ powermodels_time # None

\* one iteration of the loop: the dict appended to comparison_data
ComparisonRow(test_name, powsybl_timing, powermodels_timing) ==
    LET powsybl_time == Get(powsybl_timing, test_name)
        powermodels_time == Get(powermodels_timing, test_name)
        both == BothPresent(powsybl_time, powermodels_time)
        speedup == IF both THEN Speedup(powsybl_time, powermodels_time) ELSE None
        faster == IF both THEN Faster(powsybl_time, powermodels_time) ELSE "N/A"
    IN  [Test |-> Title(test_name),
         PowSyBl_ms |-> IF powsybl_time # None THEN Fmt2(powsybl_time)
                        ELSE [text |-> "FAILED"],
         PowerModels_ms |-> IF powermodels_time # None THEN Fmt2(powermodels_time)
                            ELSE [text |-> "FAILED"],
         Speedup |-> FmtSpeedup(speedup),
         Faster |-> faster]

\* a loop that skips the scenarios neither engine has a timing for
compare_timing_results_skip(psb, pm) ==
    IF ~Truthy(psb) \/ ~Truthy(pm)
    THEN None
    ELSE LET powsybl_timing == GetDict(psb.body, "timing_ms")
             powermodels_timing == GetDict(pm.body, "timing_ms")
             keys == SelectSeq(TestNames,
                               LAMBDA k : \/ Get(powsybl_timing, k) # None
                                          \/ Get(powermodels_timing, k) # None)
         IN  [ty |-> "DataFrame",
              rows |-> [i \in 1..Len(keys) |->
                          ComparisonRow(keys[i], powsybl_timing,
                                        powermodels_timing)]]

\* a comparison that goes on with one result missing, taking it as empty
compare_timing_results_partial(psb, pm) ==
    IF ~Truthy(psb) /\ ~Truthy(pm)
    THEN None
    ELSE LET powsybl_timing ==
               IF Truthy(psb) THEN GetDict(psb.body, "timing_ms") ELSE EmptyDict
             powermodels_timing ==
               IF Truthy(pm) THEN GetDict(pm.body, "timing_ms") ELSE EmptyDict
         IN  [ty |-> "DataFrame",
              rows |-> [i \in 1..Len(TestNames) |->
                          ComparisonRow(TestNames[i], powsybl_timing,
                                        powermodels_timing)]]

\* the whole function: None when a result is missing, else the DataFrame rows
compare_timing_results(psb, pm) ==
    IF ~Truthy(psb) \/ ~Truthy(pm)
    THEN None
    ELSE LET powsybl_timing == GetDict(psb.body, "timing_ms")
             powermodels_timing == GetDict(pm.body, "timing_ms")
         IN  [ty |-> "DataFrame",
              rows |-> [i \in 1..Len(TestNames) |->
                          ComparisonRow(TestNames[i], powsybl_timing,
                                        powermodels_timing)]]

\* comparison_df.to_dict('records') if comparison_df is not None else None
ToRecords(df) ==
    IF df = None THEN None ELSE [ty |-> "records", rows |-> df.rows]

----------------------------------------------------------------------------
(* benchmark_powsybl.py: time_operation *)

\* a second attempt after a failure
time_operation_retry(raises, payload, start_time, end_time) ==
    [invoked |-> IF raises THEN 2 ELSE 1,
     propagated |-> FALSE,
     ret |-> IF ~raises
             THEN <<end_time - start_time, TRUE, payload>>
             ELSE <<end_time - start_time, FALSE, None>>]

\* the failure is printed and raised again
time_operation_reraise(raises, payload, start_time, end_time) ==
    [invoked |-> 1,
     propagated |-> raises,
     ret |-> IF ~raises
             THEN <<end_time - start_time, TRUE, payload>>
             ELSE <<end_time - start_time, FALSE, None>>]

\* func() either returns its payload or raises an Exception (a solver error).
\* start_time and end_time are the two readings of the clock, in ms.
\* invoked: how many times func was called; propagated: did an exception
\* leave time_operation; ret: the returned triple.
time_operation(raises, payload, start_time, end_time) ==
    [invoked |-> 1,
     propagated |-> FALSE,
     ret |-> IF ~raises
             THEN <<end_time - start_time, TRUE, payload>>
             ELSE <<end_time - start_time, FALSE, None>>]

----------------------------------------------------------------------------
(* benchmark_powsybl.py: main *)

\* len(contingency_branches): the first num_contingencies of the sorted ids
NumSelected == Min(NumBranches, num_contingencies)

\* results as initialised at lines 96-112
InitialResults ==
    [timestamp |-> "this run",
     package |-> "PowSyBl",
     timing_ms |-> EmptyDict,
     success_rates |-> EmptyDict]

\* the statement after the position p of main
NextPos(p) ==
    CASE p = "load" -> "ac_power_flow"
      [] p = "ac_power_flow" -> "dc_power_flow"
      [] p = "dc_power_flow" -> "dc_contingency_analysis"
      [] p = "dc_contingency_analysis" -> "ptdf_calculation"
      [] p = "ptdf_calculation" -> "save"
      [] p = "save" -> "summary"
      [] p = "summary" -> "exit0"

\* sec.ComputationStatus of one post-contingency result
Statuses == {"CONVERGED", "FAILED"}

\* what the scenario's operation returns when it succeeds: the security
\* analysis result holds one post-contingency result per contingency
Payloads(test) ==
    IF test = "dc_contingency_analysis"
    THEN {[ty |-> "result", post_contingency_results |-> r] :
            r \in [1..NumSelected -> Statuses]}
    ELSE {[ty |-> "result"]}

\* len([c for c in sa_result.post_contingency_results.values()
\*      if c.status == sec.ComputationStatus.CONVERGED])
successful_contingencies(sa_result) ==
    Cardinality({c \in DOMAIN sa_result.post_contingency_results :
                   sa_result.post_contingency_results[c] = "CONVERGED"})

\* a failed scenario recorded with a duration of 0
Record_zero_on_failure(res, test, elapsed, success, payload) ==
    LET rates ==
          IF success /\ test = "dc_contingency_analysis"
          THEN Put(res.success_rates, "dc_contingency",
                   [text |-> "%d/%d", a |-> successful_contingencies(payload),
                    b |-> NumSelected])
          ELSE IF success /\ test = "ptdf_calculation"
          THEN Put(res.success_rates, "ptdf", [text |-> "calculation_completed"])
          ELSE res.success_rates
    IN  [res EXCEPT
           !.timing_ms = Put(@, test, IF success THEN Num(elapsed) ELSE Num(0)),
           !.success_rates = rates]

\* every post-contingency result counted, whatever its status
Record_counts_all(res, test, elapsed, success, payload) ==
    LET rates ==
          IF success /\ test = "dc_contingency_analysis"
          THEN Put(res.success_rates, "dc_contingency",
                   [text |-> "%d/%d",
                    a |-> Cardinality(DOMAIN payload.post_contingency_results),
                    b |-> NumSelected])
          ELSE IF success /\ test = "ptdf_calculation"
          THEN Put(res.success_rates, "ptdf", [text |-> "calculation_completed"])
          ELSE res.success_rates
    IN  [res EXCEPT
           !.timing_ms = Put(@, test, IF success THEN Num(elapsed) ELSE None),
           !.success_rates = rates]

\* the entries main records after a test (lines 123, 130, 143-147, 155-157)
Record(res, test, elapsed, success, payload) ==
    LET rates ==
          IF success /\ test = "dc_contingency_analysis"
          THEN Put(res.success_rates, "dc_contingency",
                   [text |-> "%d/%d", a |-> successful_contingencies(payload),
                    b |-> NumSelected])
          ELSE IF success /\ test = "ptdf_calculation"
          THEN Put(res.success_rates, "ptdf", [text |-> "calculation_completed"])
          ELSE res.success_rates
    IN  [res EXCEPT
           !.timing_ms = Put(@, test, IF success THEN Num(elapsed) ELSE None),
           !.success_rates = rates]

\* pn.load(...) at line 65: the network loads, or the load raises and the
\* program ends with a traceback (exit status 1)
powsybl_load ==
    /\ bp_pc = "load"
    /\ \E ok \in BOOLEAN :
         bp_pc' = IF ok THEN NextPos("load") ELSE "exit1"
    /\ bp_results' = InitialResults
    /\ UNCHANGED <<pc, test_system, files, reports, launched, results,
                   powsybl_results, powermodels_results, comparison_df,
                   exit_code, calls, last_op, now>>
    /\ UNCHANGED <<op_log, warnings, removed, selVars>>

\* one of the four tests of main: a call of time_operation and the recording
\* of what it returned
powsybl_test ==
    /\ bp_pc \in {TestNames[i] : i \in 1..Len(TestNames)}
    /\ \E raises \in BOOLEAN, d \in 0..MaxElapsed, payload \in Payloads(bp_pc) :
         LET t == time_operation(raises, payload, now, now + d)
         IN  /\ now' = now + d
             /\ calls' = calls \o [i \in 1..t.invoked |-> bp_pc]
             /\ last_op' = [test |-> bp_pc, raised |-> raises,
                            invoked |-> t.invoked, propagated |-> t.propagated,
                            ret |-> t.ret]
             /\ op_log' = Append(op_log, [test |-> bp_pc, raised |-> raises,
                                           elapsed |-> d,
                                           result |-> IF raises THEN None
                                                      ELSE payload])
             /\ IF t.propagated
                THEN /\ bp_pc' = "exit1"
                     /\ UNCHANGED bp_results
                ELSE /\ bp_pc' = NextPos(bp_pc)
                     /\ bp_results' = Record(bp_results, bp_pc, t.ret[1],
                                             t.ret[2], t.ret[3])
    /\ UNCHANGED <<pc, test_system, files, reports, launched, results,
                   powsybl_results, powermodels_results, comparison_df,
                   exit_code>>
    /\ UNCHANGED <<warnings, removed, selVars>>

\* json.dump(results) into powsybl_results.json (lines 160-161)
powsybl_save ==
    /\ bp_pc = "save"
    /\ files' = [files EXCEPT !["powsybl_results.json"] =
                    [ty |-> "dict", body |-> bp_results]]
    /\ bp_pc' = NextPos("save")
    /\ UNCHANGED <<pc, test_system, reports, launched, results,
                   powsybl_results, powermodels_results, comparison_df,
                   exit_code, bp_results, calls, last_op, now>>
    /\ UNCHANGED <<op_log, warnings, removed, selVars>>

\* the summary is printed (lines 163-179) and the program ends with exit
\* status 0
powsybl_exit ==
    /\ bp_pc = "summary"
    /\ bp_pc' = NextPos("summary")
    /\ UNCHANGED <<pc, test_system, files, reports, launched, results,
                   powsybl_results, powermodels_results, comparison_df,
                   exit_code, bp_results, calls, last_op, now>>
    /\ UNCHANGED <<op_log, warnings, removed, selVars>>

----------------------------------------------------------------------------
(* run_comparison.py: files, run_command, load_json_results *)

FileNames == {"powsybl_results.json", "powermodels_results.json"}

\* a file that does not exist, and one whose content is not JSON
Absent == [ty |-> "absent"]
Malformed == [ty |-> "malformed"]

\* every scenario key
AllTests == {TestNames[i] : i \in 1..Len(TestNames)}

\* a result record left on disk by an earlier comparison run
StaleRecord(package) ==
    Dict([timestamp |-> "earlier run",
          package |-> package,
          timing_ms |-> [k \in AllTests |-> Num(MaxElapsed)],
          success_rates |-> EmptyDict])

Stale(file) ==
    IF file = "powsybl_results.json" THEN StaleRecord("PowSyBl")
    ELSE StaleRecord("PowerModels.jl")

\* What `julia benchmark_powermodels.jl` may leave in powermodels_results.json:
\* a result record of the shape of the data model (timing_ms maps a scenario
\* key to a number, null or nothing), or a file that is not JSON.
PowerModelsTimings ==
    {EmptyDict, [k \in AllTests |-> None], [k \in AllTests |-> Num(MaxElapsed)],
     [k \in AllTests |-> IF k = "ac_power_flow" THEN Num(0) ELSE None]}

PowerModelsArtifacts ==
    {Dict([timestamp |-> "this run", package |-> "PowerModels.jl",
           timing_ms |-> tm, success_rates |-> EmptyDict]) :
       tm \in PowerModelsTimings} \cup {Malformed}

\* The ways subprocess.run ends in run_command: exit status 0, another exit
\* status, TimeoutExpired, or another exception (the command never ran).
\* run_command's first return value:
Success(outcome) == outcome = "exit0"

\* only a missing file handled, any other error of the load passed on
load_json_results_reraise(filename, content) ==
    [value |-> IF content.ty = "dict" THEN content ELSE None,
     warned |-> IF content.ty = "absent" THEN {filename} ELSE {},
     raised |-> content.ty \notin {"dict", "absent"}]

\* load_json_results: the parsed content; None, after a warning that names
\* the file, when the file is missing (FileNotFoundError) or cannot be
\* parsed (any other Exception)
load_json_results(filename, content) ==
    [value |-> IF content.ty = "dict" THEN content ELSE None,
     warned |-> IF content.ty = "dict" THEN {} ELSE {filename},
     raised |-> FALSE]

\* compare_success_rates: nothing to print when a result is missing or
\* empty, else the success_rates of both records; returns None
compare_success_rates(psb, pm) ==
    [printed |-> IF ~Truthy(psb) \/ ~Truthy(pm) THEN EmptyDict
                 ELSE [PowSyBl |-> GetDict(psb.body, "success_rates"),
                       PowerModels |-> GetDict(pm.body, "success_rates")],
     raised |-> FALSE]

\* the report dict of save_comparison_report, made at the time t
Report(df, psb, pm, t) ==
    [ty |-> "report",
     timestamp |-> t,
     powsybl_results |-> psb,
     powermodels_results |-> pm,
     comparison_summary |-> ToRecords(df)]

\* strftime("%Y%m%d_%H%M%S") of the time t (ms): the second t falls in; a
\* report file benchmark_comparison_<timestamp>.json is named by it
Stamp(t) == t \div 1000

\* the ways `with open(report_file, 'w') as f: json.dump(report, f)` goes:
\* the report is written, or the file cannot be opened and open raises
WriteOutcomes == {"ok", "open_fails"}

\* save_comparison_report called at the time t with the report files `disk`
\* there: the files after it, and whether it raised (nothing in it catches)
save_comparison_report(disk, df, psb, pm, t, write) ==
    LET report_file == Stamp(t)
    IN  [report_file |-> report_file,
         reports |-> IF write = "ok"
                     THEN Put(disk, report_file, Report(df, psb, pm, t))
                     ELSE disk,
         raised |-> write # "ok"]

\* the value main returns at line 260
ExitCode(res) ==
    IF res["powsybl_success"] /\ res["powermodels_success"] THEN Num(0) ELSE Num(1)

----------------------------------------------------------------------------
(* run_comparison.py: main *)

\* the old result files removed before the test system is looked for
main_start_clean_first ==
    /\ pc = "start"
    /\ files' = [f \in FileNames |-> Absent]
    /\ IF ~test_system
       THEN /\ exit_code' = Num(1)
            /\ pc' = "returned"
       ELSE /\ pc' = "run_powsybl"
            /\ UNCHANGED exit_code
    /\ UNCHANGED <<test_system, reports, launched, results, powsybl_results,
                   powermodels_results, comparison_df, bp_pc, bp_results,
                   calls, last_op, now>>
    /\ UNCHANGED <<op_log, warnings, removed, selVars>>

\* the test-system check alone, the old result files left where they are
main_start_keep_files ==
    /\ pc = "start"
    /\ IF ~test_system
       THEN /\ exit_code' = Num(1)
            /\ pc' = "returned"
       ELSE /\ pc' = "run_powsybl"
            /\ UNCHANGED exit_code
    /\ UNCHANGED <<test_system, files, reports, launched, results,
                   powsybl_results, powermodels_results, comparison_df, bp_pc,
                   bp_results, calls, last_op, now>>
    /\ UNCHANGED <<op_log, warnings, removed, selVars>>

\* lines 179-196: the test-system check, then the removal of old result files
main_start ==
    /\ pc = "start"
    /\ IF ~test_system
       THEN /\ exit_code' = Num(1)
            /\ pc' = "returned"
            /\ UNCHANGED <<files, removed>>
       ELSE /\ files' = [f \in FileNames |-> Absent]
            /\ removed' = {f \in FileNames : files[f] # Absent}
            /\ pc' = "run_powsybl"
            /\ UNCHANGED exit_code
    /\ UNCHANGED <<test_system, reports, launched, results, powsybl_results,
                   powermodels_results, comparison_df, bp_pc, bp_results,
                   calls, last_op, now>>
    /\ UNCHANGED <<op_log, warnings, selVars>>

\* the two commands of main, in the order of lines 200 and 209
Commands == <<"python3 benchmark_powsybl.py", "julia benchmark_powermodels.jl">>

\* run_command("python3 benchmark_powsybl.py"): the command is handed to
\* subprocess.run, which starts the child, or raises before any child runs
\* (the except Exception branch)
run_powsybl_start ==
    /\ pc = "run_powsybl"
    /\ launched' = Append(launched, Commands[1])
    /\ \/ /\ bp_pc' = "load"
          /\ pc' = "wait_powsybl"
          /\ UNCHANGED results
       \/ /\ results' = Put(results, "powsybl_success", Success("error"))
          /\ pc' = "run_powermodels"
          /\ UNCHANGED bp_pc
    /\ UNCHANGED <<test_system, files, reports, powsybl_results,
                   powermodels_results, comparison_df, exit_code, bp_results,
                   calls, last_op, now>>
    /\ UNCHANGED <<op_log, warnings, removed, selVars>>

\* the child has ended: returncode 0 or not (lines 40-51)
run_powsybl_end ==
    /\ pc = "wait_powsybl"
    /\ bp_pc \in {"exit0", "exit1"}
    /\ results' = Put(results, "powsybl_success", Success(bp_pc))
    /\ pc' = "run_powermodels"
    /\ UNCHANGED <<test_system, files, reports, launched, powsybl_results,
                   powermodels_results, comparison_df, exit_code, bp_pc,
                   bp_results, calls, last_op, now>>
    /\ UNCHANGED <<op_log, warnings, removed, selVars>>

\* TimeoutExpired handled, the child left running
run_powsybl_timeout_no_kill ==
    /\ pc = "wait_powsybl"
    /\ bp_pc \notin {"exit0", "exit1"}
    /\ results' = Put(results, "powsybl_success", Success("timeout"))
    /\ pc' = "run_powermodels"
    /\ UNCHANGED <<test_system, files, reports, launched, powsybl_results,
                   powermodels_results, comparison_df, exit_code, bp_pc,
                   bp_results, calls, last_op, now>>
    /\ UNCHANGED <<op_log, warnings, removed, selVars>>

\* the child is still running after 1800 s: subprocess.run kills it and
\* waits for it, then TimeoutExpired reaches the handler of lines 52-54; a
\* child killed while it writes its record may leave the file cut short
run_powsybl_timeout ==
    /\ pc = "wait_powsybl"
    /\ bp_pc \notin {"exit0", "exit1"}
    /\ bp_pc' = "killed"
    /\ \/ UNCHANGED files
       \/ /\ bp_pc = "save"
          /\ files' = [files EXCEPT !["powsybl_results.json"] = Malformed]
    /\ results' = Put(results, "powsybl_success", Success("timeout"))
    /\ pc' = "run_powermodels"
    /\ UNCHANGED <<test_system, reports, launched, powsybl_results,
                   powermodels_results, comparison_df, exit_code, bp_results,
                   calls, last_op, now>>
    /\ UNCHANGED <<op_log, warnings, removed, selVars>>

\* run_command("julia benchmark_powermodels.jl"): the command is handed to
\* subprocess.run, which starts the child, or raises before any child runs
run_powermodels_start ==
    /\ pc = "run_powermodels"
    /\ launched' = Append(launched, Commands[2])
    /\ \/ /\ pc' = "wait_powermodels"
          /\ UNCHANGED results
       \/ /\ results' = Put(results, "powermodels_success", Success("error"))
          /\ pc' = "report"
    /\ UNCHANGED <<test_system, files, reports, powsybl_results,
                   powermodels_results, comparison_df, exit_code, bp_pc,
                   bp_results, calls, last_op, now>>
    /\ UNCHANGED <<op_log, warnings, removed, selVars>>

\* the Julia program is an external command: it exits with status 0 or
\* another, or is killed at the timeout, and may or may not have written its
\* result file by then
run_powermodels_end ==
    /\ pc = "wait_powermodels"
    /\ \E outcome \in {"exit0", "exit1", "timeout"} :
         results' = Put(results, "powermodels_success", Success(outcome))
    /\ \/ UNCHANGED files
       \/ \E art \in PowerModelsArtifacts :
            files' = [files EXCEPT !["powermodels_results.json"] = art]
    /\ pc' = "report"
    /\ UNCHANGED <<test_system, reports, launched, powsybl_results,
                   powermodels_results, comparison_df, exit_code, bp_pc,
                   bp_results, calls, last_op, now>>
    /\ UNCHANGED <<op_log, warnings, removed, selVars>>

\* lines 216-260: load both files, compare, save the report, return; an
\* exception raised by a step is caught nowhere and ends main there
main_report ==
    /\ pc = "report"
    /\ LET l1 == load_json_results("powsybl_results.json",
                                   files["powsybl_results.json"])
           l2 == load_json_results("powermodels_results.json",
                                   files["powermodels_results.json"])
           psb == l1.value
           pm == l2.value
           df == compare_timing_results(psb, pm)
           sr == compare_success_rates(psb, pm)
       IN  IF l1.raised \/ l2.raised
           THEN /\ pc' = "raised_in_load"
                /\ warnings' = l1.warned
                /\ UNCHANGED <<powsybl_results, powermodels_results,
                               comparison_df, reports, exit_code>>
           ELSE /\ powsybl_results' = psb
                /\ powermodels_results' = pm
                /\ warnings' = l1.warned \cup l2.warned
                /\ IF sr.raised
                   THEN /\ pc' = "raised_in_compare"
                        /\ UNCHANGED <<comparison_df, reports, exit_code>>
                   ELSE /\ comparison_df' = df
                        /\ \E write \in WriteOutcomes :
                             LET sv == save_comparison_report(reports, df, psb,
                                                              pm, now, write)
                             IN  /\ reports' = sv.reports
                                 /\ IF sv.raised
                                    THEN /\ pc' = "raised_in_save"
                                         /\ UNCHANGED exit_code
                                    ELSE /\ pc' = "returned"
                                         /\ exit_code' = ExitCode(results)
    /\ UNCHANGED <<test_system, files, launched, results, bp_pc, bp_results,
                   calls, last_op, now>>
    /\ UNCHANGED <<op_log, removed, selVars>>

Init ==
    /\ pc = "start"
    /\ test_system \in BOOLEAN
    /\ \E old \in {{}, FileNames} :
         files = [f \in FileNames |-> IF f \in old THEN Stale(f) ELSE Absent]
    /\ reports = EmptyDict
    /\ launched = <<>>
    /\ results = EmptyDict
    /\ powsybl_results = None
    /\ powermodels_results = None
    /\ comparison_df = None
    /\ exit_code = None
    /\ bp_pc = "idle"
    /\ bp_results = InitialResults
    /\ calls = <<>>
    /\ last_op = None
    /\ now = 0
    /\ op_log = <<>>
    /\ warnings = {}
    /\ removed = {}
    /\ index = <<>>
    /\ count = 0
    /\ selection = None

Next ==
    \/ main_start
    \/ run_powsybl_start
    \/ powsybl_load
    \/ powsybl_test
    \/ powsybl_save
    \/ powsybl_exit
    \/ run_powsybl_end
    \/ run_powsybl_timeout
    \/ run_powermodels_start
    \/ run_powermodels_end
    \/ main_report

Spec == Init /\ [][Next]_vars

----------------------------------------------------------------------------
(* compare_timing_results on any two loaded results *)

\* the timing values tried: zero, one and a larger one
Times == {0, 1, MaxTime}

\* timing_ms of a loaded record: any of the keys, each a number or null
TimingMaps ==
    UNION {[S -> {None} \cup {Num(t) : t \in Times}] : S \in SUBSET AllTests}

\* a value load_json_results may return
Loaded ==
    {None} \cup {Dict(EmptyDict), Dict([package |-> "any"])}
           \cup {Dict([package |-> "any", timing_ms |-> tm]) : tm \in TimingMaps}

compare_call ==
    /\ pc = "compare"
    /\ comparison_df' = compare_timing_results(powsybl_results, powermodels_results)
    /\ pc' = "compared"
    /\ UNCHANGED <<test_system, files, reports, launched, results,
                   powsybl_results, powermodels_results, exit_code, bp_pc,
                   bp_results, calls, last_op, now>>
    /\ UNCHANGED <<op_log, warnings, removed, selVars>>

InitCompare ==
    /\ pc = "compare"
    /\ powsybl_results \in Loaded
    /\ powermodels_results \in Loaded
    /\ test_system = TRUE
    /\ files = [f \in FileNames |-> Absent]
    /\ reports = EmptyDict
    /\ launched = <<>>
    /\ results = EmptyDict
    /\ comparison_df = None
    /\ exit_code = None
    /\ bp_pc = "idle"
    /\ bp_results = InitialResults
    /\ calls = <<>>
    /\ last_op = None
    /\ now = 0
    /\ op_log = <<>>
    /\ warnings = {}
    /\ removed = {}
    /\ index = <<>>
    /\ count = 0
    /\ selection = None

NextCompare == compare_call

SpecCompare == InitCompare /\ [][NextCompare]_vars

----------------------------------------------------------------------------
(* save_comparison_report called again and again as the clock goes on:     *)
(* the report files that comparison runs leave in the directory            *)

\* a loaded record as main hands it to save_comparison_report
SavedInputs == {None, StaleRecord("PowSyBl")}

\* half a second passes
clock_tick ==
    /\ pc = "save"
    /\ now < 500 * MaxTicks
    /\ now' = now + 500
    /\ UNCHANGED <<pc, test_system, files, reports, launched, results,
                   powsybl_results, powermodels_results, comparison_df,
                   exit_code, bp_pc, bp_results, calls, last_op>>
    /\ UNCHANGED <<op_log, warnings, removed, selVars>>

\* one call of save_comparison_report, at the time the clock shows
save_call ==
    /\ pc = "save"
    /\ \E psb \in SavedInputs, write \in WriteOutcomes :
         /\ powsybl_results' = psb
         /\ reports' = save_comparison_report(reports, comparison_df, psb,
                                              powermodels_results, now,
                                              write).reports
    /\ UNCHANGED <<pc, test_system, files, launched, results,
                   powermodels_results, comparison_df, exit_code, bp_pc,
                   bp_results, calls, last_op, now>>
    /\ UNCHANGED <<op_log, warnings, removed, selVars>>

InitReports ==
    /\ pc = "save"
    /\ powsybl_results = None
    /\ powermodels_results = None
    /\ test_system = TRUE
    /\ files = [f \in FileNames |-> Absent]
    /\ reports = EmptyDict
    /\ launched = <<>>
    /\ results = EmptyDict
    /\ comparison_df = None
    /\ exit_code = None
    /\ bp_pc = "idle"
    /\ bp_results = InitialResults
    /\ calls = <<>>
    /\ last_op = None
    /\ now = 0
    /\ op_log = <<>>
    /\ warnings = {}
    /\ removed = {}
    /\ index = <<>>
    /\ count = 0
    /\ selection = None

NextReports ==
    \/ clock_tick
    \/ save_call

SpecReports == InitReports /\ [][NextReports]_vars

----------------------------------------------------------------------------
(* benchmark_powsybl.py: the subset selection of lines 81-88,              *)
(* sorted(<table>.index.tolist())[:n], on its own                          *)

\* element identifiers, strings held as the lists of their characters' codes:
\* "1", "12", "2", "21"
Ids == {<<1>>, <<1, 2>>, <<2>>, <<2, 1>>}

\* a < b for two Python strings: the first differing character decides, a
\* proper prefix comes first
RECURSIVE StrLess(_, _)
StrLess(a, b) ==
    IF a = <<>> THEN b # <<>>
    ELSE IF b = <<>> THEN FALSE
    ELSE IF Head(a) = Head(b) THEN StrLess(Tail(a), Tail(b))
    ELSE Head(a) < Head(b)

\* x put into the ascending list s
RECURSIVE Insert(_, _)
Insert(x, s) ==
    IF s = <<>> THEN <<x>>
    ELSE IF StrLess(Head(s), x) THEN <<Head(s)>> \o Insert(x, Tail(s))
    ELSE <<x>> \o s

\* sorted(ids)
RECURSIVE Sorted(_)
Sorted(ids) ==
    IF ids = <<>> THEN <<>> ELSE Insert(Head(ids), Sorted(Tail(ids)))

\* s[:n], n >= 0
Prefix(s, n) == SubSeq(s, 1, Min(n, Len(s)))

\* the first n identifiers in the order supplied
Select_unsorted(ids, n) == Prefix(ids, n)

\* sorted(ids)[:n]
Select(ids, n) == Prefix(Sorted(ids), n)

\* the lists of k different identifiers
Orders(S, k) ==
    {p \in [1..k -> S] : \A i, j \in 1..k : i # j => p[i] # p[j]}

\* an index as a network table may supply it: different identifiers in any
\* order
Indexes == UNION {Orders(Ids, k) : k \in 0..MaxIds}

select_call ==
    /\ pc = "select"
    /\ selection' = [ty |-> "list", items |-> Select(index, count)]
    /\ pc' = "selected"
    /\ UNCHANGED <<test_system, files, reports, launched, results,
                   powsybl_results, powermodels_results, comparison_df,
                   exit_code, bp_pc, bp_results, calls, last_op, now>>
    /\ UNCHANGED <<op_log, warnings, removed, index, count>>

InitSelect ==
    /\ pc = "select"
    /\ index \in Indexes
    /\ count \in 0..MaxCount
    /\ selection = None
    /\ powsybl_results = None
    /\ powermodels_results = None
    /\ test_system = TRUE
    /\ files = [f \in FileNames |-> Absent]
    /\ reports = EmptyDict
    /\ launched = <<>>
    /\ results = EmptyDict
    /\ comparison_df = None
    /\ exit_code = None
    /\ bp_pc = "idle"
    /\ bp_results = InitialResults
    /\ calls = <<>>
    /\ last_op = None
    /\ now = 0
    /\ op_log = <<>>
    /\ warnings = {}
    /\ removed = {}

NextSelect == select_call

SpecSelect == InitSelect /\ [][NextSelect]_vars

----------------------------------------------------------------------------
(* Properties of the engine run (benchmark_powsybl.py), under Spec *)

\* the catalog of scenarios in its fixed order, as the properties state it
Catalog == <<"ac_power_flow", "dc_power_flow",
             "dc_contingency_analysis", "ptdf_calculation">>

\* C1: whenever the operation given to time_operation raised, it was invoked
\* exactly once, the exception did not leave time_operation, and the triple
\* returned is (elapsed_ms, False, None) with elapsed_ms >= 0; a payload is
\* returned only by a call whose operation succeeded.
C1_FailureIsReturnedNotRaised ==
    last_op # None =>
      /\ last_op.raised =>
           /\ last_op.invoked = 1
           /\ ~last_op.propagated
           /\ last_op.ret[1] >= 0
           /\ last_op.ret[2] = FALSE
           /\ last_op.ret[3] = None
      /\ last_op.ret[3] # None => (~last_op.raised /\ last_op.ret[2] = TRUE)

\* a scenario operation has raised after running for some time
C1_Witness ==
    /\ last_op # None
    /\ last_op.raised
    /\ last_op.ret[1] > 0
    /\ bp_pc = NextPos(last_op.test)

\* C2: in one engine run the scenarios are invoked once each in the catalog
\* order; no failed scenario ends the run or skips a later one (the run ends
\* by itself early only when the network cannot be loaded, before any
\* scenario), and a run that ends with status 0 has invoked all four and has
\* written its result record.
C2_ScenariosRunInOrder ==
    /\ \E n \in 0..Len(Catalog) : calls = SubSeq(Catalog, 1, n)
    /\ bp_pc = "exit1" => calls = <<>>
    /\ last_op # None =>
          /\ calls[Len(calls)] = last_op.test
          /\ bp_pc \in {NextPos(last_op.test), "killed"}
               \/ (last_op.test = Catalog[Len(Catalog)]
                    /\ bp_pc \in {"summary", "exit0"})
    /\ bp_pc \in {"save", "summary", "exit0"} => calls = Catalog
    /\ bp_pc \in {"summary", "exit0"} =>
          /\ files["powsybl_results.json"] = Dict(bp_results)
          /\ DOMAIN bp_results.timing_ms = {Catalog[i] : i \in 1..Len(Catalog)}

\* a run in which every scenario failed has still invoked all four and has
\* written its record
C2_Witness ==
    /\ bp_pc = "exit0"
    /\ calls = Catalog
    /\ \A i \in 1..Len(Catalog) : bp_results.timing_ms[Catalog[i]] = None
    /\ files["powsybl_results.json"] = Dict(bp_results)

----------------------------------------------------------------------------
(* Properties of compare_timing_results, under SpecCompare.                *)
(* Engine B is PowSyBl (its time is the dividend of the speedup), engine A *)
(* is PowerModels.jl (its time is the divisor).                            *)

\* a loaded value that is a result record of an engine
IsResultRecord(r) == r.ty = "dict" /\ "package" \in DOMAIN r.body

\* the timing a loaded record holds for a key: a number, or None when the key
\* is missing or null
TimeOf(r, k) ==
    IF "timing_ms" \in DOMAIN r.body /\ k \in DOMAIN r.body["timing_ms"]
    THEN r.body["timing_ms"][k]
    ELSE None

IsNumeric(t) == t # None

\* the comparison has been made and has rows
Compared == pc = "compared" /\ comparison_df # None

RowOf(i) == comparison_df.rows[i]

TimeB(i) == TimeOf(powsybl_results, Catalog[i])
TimeA(i) == TimeOf(powermodels_results, Catalog[i])

LabelA == "PowerModels.jl"
LabelB == "PowSyBl"

\* C3: for every pair of result records the comparison has exactly one row
\* per scenario key, in the catalog order, whatever timings the records hold.
C3_OneRowPerScenario ==
    (/\ pc = "compared"
     /\ IsResultRecord(powsybl_results)
     /\ IsResultRecord(powermodels_results)) =>
        /\ comparison_df # None
        /\ Len(comparison_df.rows) = Len(Catalog)
        /\ \A i \in 1..Len(Catalog) : RowOf(i).Test = Title(Catalog[i])

\* two records without a single timing are compared: four rows all the same
C3_Witness ==
    /\ pc = "compared"
    /\ IsResultRecord(powsybl_results)
    /\ IsResultRecord(powermodels_results)
    /\ \A i \in 1..Len(Catalog) : TimeB(i) = None /\ TimeA(i) = None
    /\ "timing_ms" \notin DOMAIN powsybl_results.body
    /\ Len(comparison_df.rows) = Len(Catalog)

\* C4: where both records hold a number for a key, the row's speedup is
\* timeB / timeA (PowSyBl over PowerModels.jl) to two decimals, and the
\* infinite speedup when timeA is 0; 400 ms against 100 ms gives 4.00.
C4_SpeedupIsBOverA ==
    /\ Compared =>
         \A i \in 1..Len(Catalog) :
           (IsNumeric(TimeB(i)) /\ IsNumeric(TimeA(i))) =>
              IF TimeA(i).v = 0
              THEN RowOf(i).Speedup = [text |-> "infx"]
              ELSE /\ RowOf(i).Speedup.text = "%.2fx"
                   /\ LET e == 100 * TimeB(i).v - RowOf(i).Speedup.h * TimeA(i).v
                      IN  2 * e <= TimeA(i).v /\ -2 * e <= TimeA(i).v
    /\ ComparisonRow("ac_power_flow",
                     [k \in {"ac_power_flow"} |-> Num(400)],
                     [k \in {"ac_power_flow"} |-> Num(100)]).Speedup
         = [text |-> "%.2fx", h |-> 400]

\* one row divides by zero and another has a quotient that is not 1
C4_Witness ==
    /\ Compared
    /\ \E i \in 1..Len(Catalog) :
         /\ IsNumeric(TimeB(i)) /\ IsNumeric(TimeA(i))
         /\ TimeA(i).v = 0 /\ TimeB(i).v > 0
         /\ RowOf(i).Speedup = [text |-> "infx"]
    /\ \E i \in 1..Len(Catalog) :
         /\ IsNumeric(TimeB(i)) /\ IsNumeric(TimeA(i))
         /\ TimeA(i).v > 1 /\ TimeB(i).v = 1
         /\ RowOf(i).Speedup.text = "%.2fx"

\* C5 as stated: the label is B exactly when timeB < timeA, and A in every
\* other case, ties included.
C5_LabelBOnlyWhenStrictlyFaster ==
    Compared =>
      \A i \in 1..Len(Catalog) :
        (IsNumeric(TimeB(i)) /\ IsNumeric(TimeA(i))) =>
           RowOf(i).Faster = IF TimeB(i).v < TimeA(i).v THEN LabelB ELSE LabelA

\* C5 amended: the label is A exactly when timeA < timeB, and B in every
\* other case, ties included.
C5_LabelAOnlyWhenStrictlyFaster ==
    Compared =>
      \A i \in 1..Len(Catalog) :
        (IsNumeric(TimeB(i)) /\ IsNumeric(TimeA(i))) =>
           /\ TimeA(i).v < TimeB(i).v => RowOf(i).Faster = LabelA
           /\ TimeB(i).v < TimeA(i).v => RowOf(i).Faster = LabelB
           /\ TimeB(i).v = TimeA(i).v => RowOf(i).Faster = LabelB

\* a tie of two non-zero timings, labelled B
C5_Witness ==
    /\ Compared
    /\ \E i \in 1..Len(Catalog) :
         /\ IsNumeric(TimeB(i)) /\ IsNumeric(TimeA(i))
         /\ TimeB(i).v = TimeA(i).v /\ TimeA(i).v > 0
         /\ RowOf(i).Faster = LabelB

\* does the row carry a speedup above 1 (the infinite one included)
SpeedupAboveOne(row) ==
    \/ row.Speedup.text = "infx"
    \/ row.Speedup.text = "%.2fx" /\ row.Speedup.h > 100

SpeedupBelowOne(row) == row.Speedup.text = "%.2fx" /\ row.Speedup.h < 100

\* C6 as stated: a speedup above 1, the infinite one included, always comes
\* with the label of A, and the label of B only with a speedup below 1.
C6_LabelAgreesWithSpeedup ==
    Compared =>
      \A i \in 1..Len(Catalog) :
        RowOf(i).Speedup.text # "N/A" =>
           /\ SpeedupAboveOne(RowOf(i)) => RowOf(i).Faster = LabelA
           /\ RowOf(i).Faster = LabelB => SpeedupBelowOne(RowOf(i))

\* C6 amended: a finite speedup above 1 always comes with the label of A; the
\* infinite speedup comes with the label of A unless both timings are 0, and
\* then with the label of B; the label of B comes only with a speedup of at
\* most 1, or with the infinite speedup of two timings of 0.
C6_LabelAgreesExceptOnTies ==
    Compared =>
      \A i \in 1..Len(Catalog) :
        RowOf(i).Speedup.text # "N/A" =>
           LET row == RowOf(i)
               bothZero == /\ row.PowSyBl_ms = [text |-> "%.2f", h |-> 0]
                           /\ row.PowerModels_ms = [text |-> "%.2f", h |-> 0]
           IN  /\ (row.Speedup.text = "%.2fx" /\ row.Speedup.h > 100) =>
                     row.Faster = LabelA
               /\ row.Speedup.text = "infx" =>
                     row.Faster = IF bothZero THEN LabelB ELSE LabelA
               /\ row.Faster = LabelB =>
                     \/ row.Speedup.text = "%.2fx" /\ row.Speedup.h <= 100
                     \/ row.Speedup.text = "infx" /\ bothZero

\* one row has the infinite speedup of two zero timings and the label of B,
\* another a finite speedup above 1 and the label of A
C6_Witness ==
    /\ Compared
    /\ \E i \in 1..Len(Catalog) :
         /\ RowOf(i).Speedup.text = "infx"
         /\ IsNumeric(TimeB(i)) /\ TimeB(i).v = 0
         /\ RowOf(i).Faster = LabelB
    /\ \E i \in 1..Len(Catalog) :
         /\ RowOf(i).Speedup.text = "%.2fx" /\ RowOf(i).Speedup.h > 100
         /\ RowOf(i).Faster = LabelA

\* C7: a row's speedup and faster-engine are both N/A exactly when one of the
\* two records has no number for the key (key missing, or null); the row is
\* there all the same, the missing side marked and the other side shown.
C7_NAExactlyWhenATimingIsMissing ==
    Compared =>
      /\ Len(comparison_df.rows) = Len(Catalog)
      /\ \A i \in 1..Len(Catalog) :
           LET missing == ~IsNumeric(TimeB(i)) \/ ~IsNumeric(TimeA(i))
           IN  /\ RowOf(i).Speedup = [text |-> "N/A"] <=> missing
               /\ RowOf(i).Faster = "N/A" <=> missing
               /\ RowOf(i).PowSyBl_ms =
                    IF IsNumeric(TimeB(i))
                    THEN [text |-> "%.2f", h |-> 100 * TimeB(i).v]
                    ELSE [text |-> "FAILED"]
               /\ RowOf(i).PowerModels_ms =
                    IF IsNumeric(TimeA(i))
                    THEN [text |-> "%.2f", h |-> 100 * TimeA(i).v]
                    ELSE [text |-> "FAILED"]

\* one key is missing from one record and null in the other, another key has
\* a number of 0 on both sides
C7_Witness ==
    /\ Compared
    /\ \E i \in 1..Len(Catalog) :
         /\ "timing_ms" \in DOMAIN powsybl_results.body
         /\ Catalog[i] \notin DOMAIN powsybl_results.body["timing_ms"]
         /\ "timing_ms" \in DOMAIN powermodels_results.body
         /\ Catalog[i] \in DOMAIN powermodels_results.body["timing_ms"]
         /\ TimeA(i) = None
         /\ RowOf(i).Faster = "N/A"
    /\ \E i \in 1..Len(Catalog) :
         /\ IsNumeric(TimeB(i)) /\ IsNumeric(TimeA(i))
         /\ TimeB(i).v = 0 /\ TimeA(i).v = 0
         /\ RowOf(i).Faster # "N/A"

----------------------------------------------------------------------------
(* Properties of the comparison run (run_comparison.main), under Spec *)

Returned == pc = "returned"

\* the report the run has written
LastReport == reports[Stamp(now)]

FileOf(engine) ==
    IF engine = "powsybl" THEN "powsybl_results.json"
    ELSE "powermodels_results.json"

SuccessOf(engine) ==
    IF engine = "powsybl" THEN results["powsybl_success"]
    ELSE results["powermodels_success"]

Other(engine) == IF engine = "powsybl" THEN "powermodels" ELSE "powsybl"

\* the run has ended after both engines were tried; this engine's run failed
\* and left no artifact, the other engine's artifact is a result record
OnlyOtherArtifact(engine) ==
    /\ Returned
    /\ test_system
    /\ ~SuccessOf(engine)
    /\ files[FileOf(engine)] = Absent
    /\ files[FileOf(Other(engine))].ty = "dict"

\* C8 as stated: with one engine's artifact missing and the other's there,
\* the report has the four scenario rows, N/A for the missing engine.
C8_PartialComparisonHasRows ==
    \A engine \in {"powsybl", "powermodels"} :
      OnlyOtherArtifact(engine) =>
        /\ Stamp(now) \in DOMAIN reports
        /\ LastReport.comparison_summary # None
        /\ Len(LastReport.comparison_summary.rows) = Len(Catalog)
        /\ \A i \in 1..Len(Catalog) :
             LastReport.comparison_summary.rows[i].Speedup = [text |-> "N/A"]

\* C8 amended: with one engine's artifact missing and the other's there, the
\* run is not aborted: the comparison steps run and the report is written
\* with the record that exists and null for the missing one, but
\* compare_timing_results makes no rows and the report's summary is null.
C8_PartialComparisonHasNoRows ==
    \A engine \in {"powsybl", "powermodels"} :
      OnlyOtherArtifact(engine) =>
        /\ Stamp(now) \in DOMAIN reports
        /\ comparison_df = None
        /\ LastReport.comparison_summary = None
        /\ LET mine == IF engine = "powsybl" THEN LastReport.powsybl_results
                       ELSE LastReport.powermodels_results
               theirs == IF engine = "powsybl" THEN LastReport.powermodels_results
                         ELSE LastReport.powsybl_results
           IN  /\ mine = None
               /\ theirs = files[FileOf(Other(engine))]
        /\ exit_code = Num(1)

\* the PowSyBl run timed out before writing, PowerModels.jl wrote its record
C8_Witness ==
    /\ OnlyOtherArtifact("powsybl")
    /\ bp_pc = "killed"
    /\ results["powermodels_success"]
    /\ Stamp(now) \in DOMAIN reports

\* C9 as stated: main returns 0 only when both subprocesses succeeded and
\* both artifacts exist, and 1 whenever a run failed or an artifact is missing.
C9_ExitCodeFollowsRunsAndArtifacts ==
    (Returned /\ test_system) =>
       LET ok == /\ results["powsybl_success"]
                 /\ results["powermodels_success"]
                 /\ \A f \in FileNames : files[f] # Absent
       IN  exit_code = IF ok THEN Num(0) ELSE Num(1)

\* C10: with the test system absent, the one step main takes is to return 1:
\* no result file is removed, no subprocess is started, no report is written.
C10_NoWorkWithoutTestSystem ==
    [][~test_system =>
         /\ pc' = "returned"
         /\ exit_code' = Num(1)
         /\ files' = files
         /\ launched' = <<>>
         /\ reports' = reports
         /\ bp_pc' = "idle"]_vars

\* main has returned 1 at the check, two old result files are still there
C10_Witness ==
    /\ ~test_system
    /\ Returned
    /\ exit_code = Num(1)
    /\ \A f \in FileNames : files[f] = Stale(f)
    /\ launched = <<>>

----------------------------------------------------------------------------
(* The two engine subprocesses of a comparison run, under Spec *)

\* the PowSyBl subprocess is running
PowsyblRunning == bp_pc \notin {"idle", "exit0", "exit1", "killed"}

\* the PowerModels.jl subprocess is running
PowerModelsRunning == pc = "wait_powermodels"

\* main is past both run_command calls
BothTried == test_system /\ pc \notin {"start", "run_powsybl", "wait_powsybl",
                                       "run_powermodels", "wait_powermodels"}

\* C11: in a run past the test-system check each engine command is handed to
\* subprocess.run once, PowSyBl's first; PowerModels.jl's is handed over only
\* when run_command has returned for PowSyBl and the PowSyBl subprocess has
\* ended (exit 0, another exit status, killed at the timeout) or never
\* started (launch error); the two subprocesses never run at the same time.
C11_EnginesRunOnceInTurn ==
    /\ Len(launched) <= Len(Commands)
    /\ \A i \in 1..Len(launched) : launched[i] = Commands[i]
    /\ BothTried => launched = Commands
    /\ Len(launched) = 2 =>
         /\ ~PowsyblRunning
         /\ "powsybl_success" \in DOMAIN results
    /\ ~(PowsyblRunning /\ PowerModelsRunning)

\* PowerModels.jl runs after the PowSyBl subprocess was killed at the timeout
\* in the middle of its tests
C11_Witness ==
    /\ PowerModelsRunning
    /\ bp_pc = "killed"
    /\ Len(calls) = 2
    /\ launched = Commands
    /\ ~results["powsybl_success"]

----------------------------------------------------------------------------
(* The result record of the engine run (benchmark_powsybl.py), under Spec *)

PowsyblFile == files["powsybl_results.json"]

\* powsybl_results.json holds the record written by the engine run
WrittenByEngineRun ==
    /\ PowsyblFile.ty = "dict"
    /\ PowsyblFile.body.timestamp = "this run"

\* C12: the written record's timing_ms has the four catalog keys and no
\* other; the entry of a scenario is the measured duration when the
\* scenario's operation succeeded and null when it raised, so a failed
\* scenario is never recorded as a number.
C12_TimingIsDurationOrNull ==
    WrittenByEngineRun =>
      /\ DOMAIN PowsyblFile.body.timing_ms =
           {Catalog[i] : i \in 1..Len(Catalog)}
      /\ Len(op_log) = Len(Catalog)
      /\ \A i \in 1..Len(Catalog) :
           /\ op_log[i].test = Catalog[i]
           /\ PowsyblFile.body.timing_ms[Catalog[i]] =
                IF op_log[i].raised THEN None ELSE Num(op_log[i].elapsed)
           /\ op_log[i].raised => ~IsNumeric(PowsyblFile.body.timing_ms[Catalog[i]])

\* a record is written in which a scenario that took 1 ms and failed is null
\* and a scenario that succeeded in less than 1 ms is the number 0
C12_Witness ==
    /\ WrittenByEngineRun
    /\ \E i \in 1..Len(Catalog) :
         /\ op_log[i].raised /\ op_log[i].elapsed = MaxElapsed
         /\ PowsyblFile.body.timing_ms[Catalog[i]] = None
    /\ \E i \in 1..Len(Catalog) :
         /\ ~op_log[i].raised /\ op_log[i].elapsed = 0
         /\ PowsyblFile.body.timing_ms[Catalog[i]] = Num(0)

\* the records to look at: main's results dict and the record it has written
EngineRecords ==
    {bp_results} \cup (IF WrittenByEngineRun THEN {PowsyblFile.body} ELSE {})

\* the time_operation call of the contingency batch has returned
ContingencyTested == Len(op_log) >= 3 /\ op_log[3].test = "dc_contingency_analysis"

\* C13: the record holds the entry success_rates["dc_contingency"] exactly
\* when the contingency batch call succeeded; the entry is then
\* "<converged>/<total>", converged the number of post-contingency results of
\* status CONVERGED and total the number of selected contingencies.
C13_ContingencyRateOnlyOnSuccess ==
    \A r \in EngineRecords :
      /\ "dc_contingency" \in DOMAIN r.success_rates
           <=> (ContingencyTested /\ ~op_log[3].raised)
      /\ "dc_contingency" \in DOMAIN r.success_rates =>
           r.success_rates["dc_contingency"] =
             [text |-> "%d/%d",
              a |-> Cardinality({c \in 1..NumSelected :
                      op_log[3].result.post_contingency_results[c] = "CONVERGED"}),
              b |-> NumSelected]

\* a record written after a batch of which one contingency converged and
\* another did not
C13_Witness ==
    /\ WrittenByEngineRun
    /\ ~op_log[3].raised
    /\ PowsyblFile.body.success_rates["dc_contingency"].a = 1
    /\ PowsyblFile.body.success_rates["dc_contingency"].b = NumSelected
    /\ NumSelected > 1

----------------------------------------------------------------------------
(* Loading of the result files and the steps after it, under Spec *)

\* main is past the loading of the result files
Loaded2 == test_system /\ pc \notin {"start", "run_powsybl", "wait_powsybl",
                                     "run_powermodels", "wait_powermodels",
                                     "report"}

LoadedValue(f) ==
    IF f = "powsybl_results.json" THEN powsybl_results ELSE powermodels_results

Unusable(f) == files[f].ty \in {"absent", "malformed"}

\* C14: a result file that is missing or is not JSON is loaded as None, with
\* a warning that names it and no exception; compare_timing_results,
\* compare_success_rates and save_comparison_report then take the None
\* without raising: no rows are made and, unless the writing of the file
\* itself fails, the report is written with null for that record and main
\* returns.
C14_UnusableFileLoadsAsNone ==
    Loaded2 =>
      /\ pc \notin {"raised_in_load", "raised_in_compare"}
      /\ \A f \in FileNames :
           /\ f \in warnings <=> Unusable(f)
           /\ Unusable(f) =>
                /\ LoadedValue(f) = None
                /\ comparison_df = None
                /\ pc = "returned" =>
                     /\ LastReport.ty = "report"
                     /\ LastReport.comparison_summary = None
                     /\ IF f = "powsybl_results.json"
                        THEN LastReport.powsybl_results = None
                        ELSE LastReport.powermodels_results = None

\* main has returned after loading a PowSyBl file cut short by the timeout
\* and finding no PowerModels.jl file
C14_Witness ==
    /\ Loaded2
    /\ pc = "returned"
    /\ files["powsybl_results.json"] = Malformed
    /\ files["powermodels_results.json"] = Absent
    /\ warnings = FileNames
    /\ LastReport.powsybl_results = None

\* the report of this run is on disk, written to the end
ReportWritten ==
    /\ Stamp(now) \in DOMAIN reports
    /\ reports[Stamp(now)].ty = "report"
    /\ reports[Stamp(now)].timestamp = now

\* every report file of before is there with the content it had
EarlierReportsKept ==
    \A n \in DOMAIN reports :
      n \in DOMAIN reports' /\ reports'[n] = reports[n]

\* C16 as stated: when the writing of the report fails, main still returns
\* (the failure is not an uncaught error), and the result files and the
\* reports written before are as they were.
C16_WriteFailureIsContained ==
    [][(pc = "report" /\ ~ReportWritten') =>
         /\ pc' = "returned"
         /\ exit_code' # None
         /\ files' = files
         /\ EarlierReportsKept]_vars

----------------------------------------------------------------------------
(* The report files of repeated save_comparison_report calls, under       *)
(* SpecReports                                                             *)

\* C15 as stated: a call of save_comparison_report writes to a file name no
\* earlier call has used, and every report written before stays as it was.
C15_ReportNameNeverUsedBefore ==
    [][(pc = "save" /\ reports' # reports) =>
         /\ Stamp(now) \notin DOMAIN reports
         /\ EarlierReportsKept]_vars

----------------------------------------------------------------------------
(* Result files of earlier runs, under Spec *)

\* the file holds a record that this run did not write
IsStale(f) == files[f].ty = "dict" /\ files[f].body.timestamp # "this run"

\* C18: in a run past the test-system check no result file of an earlier run
\* is on disk from the first launch on, so a record loaded for the
\* comparison was written during this run, and an engine that left no file
\* is loaded as None.
C18_NoStaleRecordLoaded ==
    test_system =>
      /\ pc = "run_powsybl" => \A f \in FileNames : files[f] = Absent
      /\ launched # <<>> => \A f \in FileNames : ~IsStale(f)
      /\ Loaded2 =>
           \A f \in FileNames :
             /\ LoadedValue(f) # None =>
                  /\ LoadedValue(f) = files[f]
                  /\ LoadedValue(f).body.timestamp = "this run"
             /\ files[f] = Absent => LoadedValue(f) = None

\* both result files of an earlier run were on disk at the start and were
\* removed, the PowSyBl run was killed before it wrote its record: None is
\* loaded for it
C18_Witness ==
    /\ Loaded2
    /\ pc = "returned"
    /\ bp_pc = "killed"
    /\ Len(calls) = 2
    /\ files["powsybl_results.json"] = Absent
    /\ powsybl_results = None
    /\ removed = FileNames
    /\ powermodels_results # None

----------------------------------------------------------------------------
(* The subset selection, under SpecSelect *)

Selected == pc = "selected"

\* the candidates, as a set
Candidates == {index[i] : i \in 1..Len(index)}

\* the identifiers selected, as a set
Chosen == {selection.items[i] : i \in 1..Len(selection.items)}

\* C17: the selection is the first n identifiers of the candidates in
\* lexicographic order, all of them when there are fewer than n; the same
\* candidates supplied in any other order give the same ordered selection.
C17_SelectionIsSortedPrefix ==
    Selected =>
      /\ Len(selection.items) = Min(count, Cardinality(Candidates))
      /\ Chosen \subseteq Candidates
      /\ \A i \in 1..(Len(selection.items) - 1) :
           StrLess(selection.items[i], selection.items[i + 1])
      /\ \A x \in Chosen, y \in Candidates \ Chosen : StrLess(x, y)
      /\ \A other \in Orders(Candidates, Len(index)) :
           Select(other, count) = selection.items

\* two of three candidates are selected: "12" and "2", in that order, of
\* the candidates supplied as "21", "12", "2"
C17_Witness ==
    /\ Selected
    /\ index = << <<2, 1>>, <<1, 2>>, <<2>> >>
    /\ count = 2
    /\ selection.items = << <<1, 2>>, <<2>> >>

====
